---- MODULE Spec2Model ----
(***************************************************************************)
(* Model of the multi-currency ledger of the shop API:                     *)
(*   api/service/balance_service.py      BalanceService                    *)
(*   api/service/conversion_service.py   ConversionService                 *)
(*   api/service/transaction_service.py  TransactionService                *)
(*   api/service/database_service.py     DatabaseService                   *)
(*                                                                         *)
(* The store is one SQLite file shared by every server process; each       *)
(* execute_query(fetch=False) commits its own statement, so the atomic     *)
(* step of the model is one execute_query call.  Processes interleave      *)
(* between statements.                                                     *)
(***************************************************************************)
EXTENDS Integers, Sequences, FiniteSets, TLC

\* ------------------------------------------------------------------ bounds
\* Largest number of rows of balance_transactions.
MaxTxn == 2

\* Largest number of rows of transactions.
MaxTransactions == 2

\* Server processes that share the store.
Procs == {"p1", "p2"}

\* Amounts a caller may put in a request (0 is refused by the request model).
Amounts == {0, 150}

\* Amounts of the conversions: one the discord account can afford, one it
\* cannot.
ConvAmounts == {0, 50, 150}

\* Largest number of rows of conversion_rates.
MaxRates == 4

\* ------------------------------------------------------------ enumerations
CurrencyType == {"wl", "dl", "bgl", "idr"}

TransactionType ==
    {"add", "subtract", "convert", "donation", "purchase", "refund", "adjustment"}

TransactionStatus == {"pending", "success", "failed", "reversed", "cancelled"}

\* Rows of the users table, keyed by (id, user_type).
Accounts == {<<"u1", "discord">>, <<"u1", "web">>}

\* Account keys a caller may name; <<"u2", "discord">> matches no row.
AccountKeys == Accounts \cup {<<"u2", "discord">>}

\* (user_id, user_type, currency_type, transaction_type) of the calls the
\* model makes: both directions on the game currency of the discord account,
\* the real currency on both platforms, a game currency on the web account,
\* and an account that does not exist.
ReqTargets ==
    {<<"u1", "discord", "wl", "add">>, <<"u1", "discord", "wl", "subtract">>,
     <<"u1", "discord", "idr", "add">>, <<"u1", "web", "idr", "subtract">>,
     <<"u1", "web", "wl", "add">>, <<"u2", "discord", "wl", "add">>}

NoRequest == [kind |-> "none"]

NoRate == [currency |-> "none"]

\* A redis key "lock:<key>" that does not exist.
NoLock == [holder |-> "none", ttl |-> 0]

\* Values of the timeout argument of acquire_lock, in ticks of the clock.
Timeouts == {1, 2}

\* Longest time the model lets a caller of acquire_lock wait, in ticks.
MaxWait == 3

VARIABLES
    users,                 \* users table: account key -> row
    balance_transactions,  \* balance_transactions table, in insertion order
    transactions,          \* transactions table, in insertion order
    conversion_rates,      \* conversion_rates table, ordered by updated_at
    conversions,           \* conversions table, in insertion order
    locks,                 \* redis keys "lock:<key>": account key -> holder, ttl
    pc,                    \* position of each process in its current call
    request,               \* arguments of the call a process is serving
    transaction_id,        \* update_balance's local transaction_id
    rate,                  \* convert_currency's local rate
    ret                    \* what the last call of a process returned

store == <<users, balance_transactions, transactions, conversion_rates, conversions>>

vars == <<users, balance_transactions, transactions, conversion_rates, conversions,
          locks, pc, request, transaction_id, rate, ret>>

\* --------------------------------------------------------------- the store
\* Balance model: four fields with ge=0 and a validator that raises.
validate_non_negative(b) == \A c \in CurrencyType : b[c] >= 0

\* BalanceResponse.validate_growid.
validate_growid(user_type, growid) ==
    /\ user_type = "discord" => growid # ""
    /\ user_type = "web" => growid = ""

\* A request model that takes any amount.  The code does not have this; C30
\* is shown to depend on the difference.
any_amount(amount) == TRUE

\* BalanceUpdateRequest: amount has gt=0 and a validator.
validate_amount(amount) == amount > 0

\* get_balance: None when no row matches, a ValidationError when the row does
\* not fit BalanceResponse / Balance, else the balances of the row.
get_balance(user_id, user_type) ==
    IF <<user_id, user_type>> \notin DOMAIN users
    THEN [kind |-> "None"]
    ELSE LET user == users[<<user_id, user_type>>] IN
         IF /\ validate_non_negative(user.balance)
            /\ validate_growid(user_type, user.growid)
         THEN [kind |-> "BalanceResponse", balance |-> user.balance]
         ELSE [kind |-> "ValidationError"]

\* multiplier = 1 for ADD and DONATION, else -1.
multiplier(transaction_type) ==
    IF transaction_type \in {"add", "donation"} THEN 1 ELSE -1

\* The UPDATE without the user_type condition: every row of the user id gets
\* the delta.  The code does not do this; C32 is shown to depend on the
\* difference.
balance_query_by_id(tbl, user_id, user_type, currency, delta) ==
    [a \in DOMAIN tbl |->
        IF a[1] = user_id
        THEN [tbl[a] EXCEPT !.balance[currency] = @ + delta]
        ELSE tbl[a]]

\* UPDATE users SET balance_<c> = balance_<c> + ? WHERE id = ? AND user_type = ?
\* (no row matches a missing account: the statement succeeds and changes nothing).
balance_query(tbl, user_id, user_type, currency, delta) ==
    IF <<user_id, user_type>> \in DOMAIN tbl
    THEN [tbl EXCEPT ![<<user_id, user_type>>].balance[currency] = @ + delta]
    ELSE tbl

\* UPDATE balance_transactions SET status = ? WHERE id = ?
set_status(tbl, id, status) ==
    IF id \in DOMAIN tbl THEN [tbl EXCEPT ![id].status = status] ELSE tbl

\* DatabaseService.transaction() is entered with no argument and, as the
\* design notes record, gives no atomic commit or rollback over the writes
\* made inside it: entering and leaving it changes nothing.
transaction(p) == pc[p] = "idle"

\* The rate rows present at start: the active WL rate of the documented
\* scenario, a DL row that has been deactivated, and a BGL rate whose minimum
\* is above the amounts the callers use.
InitialRates ==
    << [currency |-> "wl", rate_rupiah |-> 5000, min_amount |-> 1,
        max_amount |-> 10000, is_active |-> TRUE],
       [currency |-> "dl", rate_rupiah |-> 100, min_amount |-> 1,
        max_amount |-> 1000, is_active |-> FALSE],
       [currency |-> "bgl", rate_rupiah |-> 10, min_amount |-> 200,
        max_amount |-> 1000, is_active |-> TRUE] >>

\* ------------------------------------------------------------------- Init
\* The users table at start: a discord account holding 100 WL and a web
\* account of the same user id holding 100 rupiah.
InitialUsers ==
    [a \in Accounts |->
        IF a[2] = "discord"
        THEN [growid |-> "G1",
              balance |-> [c \in CurrencyType |-> IF c = "wl" THEN 100 ELSE 0]]
        ELSE [growid |-> "",
              balance |-> [c \in CurrencyType |-> IF c = "idr" THEN 100 ELSE 0]]]

Init ==
    /\ users = InitialUsers
    /\ balance_transactions = <<>>
    /\ transactions = <<>>
    /\ conversion_rates = InitialRates
    /\ conversions = <<>>
    /\ rate = [p \in Procs |-> NoRate]
    /\ locks = [a \in AccountKeys |-> NoLock]
    /\ pc = [p \in Procs |-> "idle"]
    /\ request = [p \in Procs |-> NoRequest]
    /\ transaction_id = [p \in Procs |-> 0]
    /\ ret = [p \in Procs |-> "none"]

\* ------------------------------------------------------- calls and returns
\* A call returns value: the process is free for the next call and nothing of
\* the finished call but its result stays with it.
Returned(p, value) ==
    /\ pc' = [pc EXCEPT ![p] = "idle"]
    /\ request' = [request EXCEPT ![p] = NoRequest]
    /\ transaction_id' = [transaction_id EXCEPT ![p] = 0]
    /\ rate' = [rate EXCEPT ![p] = NoRate]
    /\ ret' = [ret EXCEPT ![p] = value]

\* convert_currency returns value before it has read any balance: the request
\* r and the rate row it found stay with the result, as the message names them.
Rejected(p, value, r, found) ==
    /\ pc' = [pc EXCEPT ![p] = "idle"]
    /\ request' = [request EXCEPT ![p] = r]
    /\ transaction_id' = [transaction_id EXCEPT ![p] = 0]
    /\ rate' = [rate EXCEPT ![p] = found]
    /\ ret' = [ret EXCEPT ![p] = value]

\* ---------------------------------------------------------- update_balance
UpdateRequests ==
    {[kind |-> "update_balance", user_id |-> t[1], user_type |-> t[2],
      currency_type |-> t[3], transaction_type |-> t[4], amount |-> a] :
        t \in ReqTargets, a \in Amounts}

\* A BalanceUpdateRequest with amount <= 0 cannot be built: the call never
\* reaches the service.
RejectUpdate(p) ==
    /\ pc[p] = "idle"
    /\ \E r \in UpdateRequests : ~validate_amount(r.amount)
    /\ Returned(p, "ValidationError")
    /\ UNCHANGED <<store, locks>>

\* The row update_balance inserts.
txn_query(r) ==
    [user_id |-> r.user_id, user_type |-> r.user_type,
     currency_type |-> r.currency_type, transaction_type |-> r.transaction_type,
     amount |-> r.amount, status |-> "pending"]

\* update_balance up to and including the INSERT of the pending row, for a
\* request drawn from requests.
\* ok = FALSE: the statement raises sqlite3.Error and is rolled back.
update_balance(p, ok, requests) ==
    /\ transaction(p)
    /\ Len(balance_transactions) < MaxTxn
    /\ \E r \in requests :
         /\ validate_amount(r.amount)
         /\ request' = [request EXCEPT ![p] = r]
         /\ IF ok
            THEN /\ balance_transactions' = Append(balance_transactions, txn_query(r))
                 /\ transaction_id' = [transaction_id EXCEPT ![p] =
                                          Len(balance_transactions) + 1]
                 /\ pc' = [pc EXCEPT ![p] = "update_balance"]
            ELSE /\ balance_transactions' = balance_transactions
                 /\ transaction_id' = [transaction_id EXCEPT ![p] = 0]
                 /\ pc' = [pc EXCEPT ![p] = "except"]
    /\ ret' = [ret EXCEPT ![p] = "none"]
    /\ UNCHANGED <<users, transactions, conversion_rates, conversions, locks, rate>>

\* update_balance called with one of UpdateRequests.
InsertPending(p, ok) == update_balance(p, ok, UpdateRequests)

\* Every transaction type on every currency of the discord account.
TypedRequests ==
    {[kind |-> "update_balance", user_id |-> "u1", user_type |-> "discord",
      currency_type |-> c, transaction_type |-> t, amount |-> 150] :
        c \in CurrencyType, t \in TransactionType}

\* One credit on each of the two accounts.
ParallelRequests ==
    {[kind |-> "update_balance", user_id |-> "u1", user_type |-> "discord",
      currency_type |-> "wl", transaction_type |-> "add", amount |-> 150],
     [kind |-> "update_balance", user_id |-> "u1", user_type |-> "web",
      currency_type |-> "idr", transaction_type |-> "add", amount |-> 150]}

\* update_balance called with one of ParallelRequests.
InsertParallel(p) == update_balance(p, TRUE, ParallelRequests)

\* update_balance called with one of TypedRequests.
InsertTyped(p) == update_balance(p, TRUE, TypedRequests)

\* The UPDATE of the users row.
UpdateBalance(p, ok) ==
    /\ pc[p] = "update_balance"
    /\ IF ok
       THEN /\ users' = balance_query(users, request[p].user_id, request[p].user_type,
                            request[p].currency_type,
                            multiplier(request[p].transaction_type) * request[p].amount)
            /\ pc' = [pc EXCEPT ![p] = "update_status"]
       ELSE /\ users' = users
            /\ pc' = [pc EXCEPT ![p] = "except"]
    /\ UNCHANGED <<balance_transactions, transactions, conversion_rates, conversions,
                   locks, request, transaction_id, rate, ret>>

\* A status UPDATE whose failure also undoes the UPDATE of the balance made
\* before it.  The code does not do this; C39 is shown to depend on the
\* difference.
UpdateStatusRollback(p, ok) ==
    /\ pc[p] = "update_status"
    /\ IF ok
       THEN /\ balance_transactions' =
                   set_status(balance_transactions, transaction_id[p], "success")
            /\ users' = users
            /\ pc' = [pc EXCEPT ![p] = "return"]
       ELSE /\ balance_transactions' = balance_transactions
            /\ users' = balance_query(users, request[p].user_id, request[p].user_type,
                            request[p].currency_type,
                            0 - multiplier(request[p].transaction_type) * request[p].amount)
            /\ pc' = [pc EXCEPT ![p] = "except"]
    /\ UNCHANGED <<transactions, conversion_rates, conversions,
                   locks, request, transaction_id, rate, ret>>

\* The UPDATE of the row's status to success.
UpdateStatus(p, ok) ==
    /\ pc[p] = "update_status"
    /\ IF ok
       THEN /\ balance_transactions' =
                   set_status(balance_transactions, transaction_id[p], "success")
            /\ pc' = [pc EXCEPT ![p] = "return"]
       ELSE /\ balance_transactions' = balance_transactions
            /\ pc' = [pc EXCEPT ![p] = "except"]
    /\ UNCHANGED <<users, transactions, conversion_rates, conversions,
                   locks, request, transaction_id, rate, ret>>

\* return await self.get_balance(...): the read may raise (sqlite3.Error, or
\* the ValidationError of Balance / BalanceResponse), which enters the handler.
ReturnBalance(p, ok) ==
    /\ pc[p] = "return"
    /\ LET b == get_balance(request[p].user_id, request[p].user_type) IN
       IF ok /\ b.kind # "ValidationError"
       THEN Returned(p, b.kind)
       ELSE /\ pc' = [pc EXCEPT ![p] = "except"]
            /\ UNCHANGED <<request, transaction_id, rate, ret>>
    /\ UNCHANGED <<store, locks>>

\* except Exception: set the row's status to failed and return None; when
\* that UPDATE raises too, the exception leaves update_balance.
ExceptHandler(p, ok) ==
    /\ pc[p] = "except"
    /\ IF ok
       THEN /\ balance_transactions' =
                   set_status(balance_transactions, transaction_id[p], "failed")
            /\ Returned(p, "None")
       ELSE /\ balance_transactions' = balance_transactions
            /\ Returned(p, "sqlite3.Error")
    /\ UNCHANGED <<users, transactions, conversion_rates, conversions, locks>>

\* -------------------------------------------------------- convert_currency
\* (user_id, user_type, from_currency, to_currency) of the conversions the
\* model requests.
ConvTargets ==
    {<<"u1", "discord", "wl", "idr">>, <<"u1", "discord", "dl", "idr">>,
     <<"u1", "discord", "bgl", "idr">>, <<"u1", "discord", "idr", "idr">>,
     <<"u1", "discord", "wl", "dl">>, <<"u1", "web", "wl", "idr">>,
     <<"u2", "discord", "wl", "idr">>}

ConversionRequests ==
    {[kind |-> "convert_currency", user_id |-> t[1], user_type |-> t[2],
      from_currency |-> t[3], to_currency |-> t[4], amount |-> a] :
        t \in ConvTargets, a \in ConvAmounts}

\* A request model without validators.  The code does not have this; C21 is
\* shown to depend on the difference.
AnyConversionRequest(r) == TRUE

\* ConversionRequest: amount gt=0, validate_user_type, validate_to_currency.
ConversionRequest(r) ==
    /\ r.amount > 0
    /\ r.user_type = "discord"
    /\ r.from_currency # r.to_currency
    /\ r.from_currency # "idr"
    /\ r.to_currency = "idr"

\* The lookup without its WHERE clause: the newest row of the table, whatever
\* its currency.  The code does not do this; C15 is shown to depend on the
\* difference.
newest_rate(currency) == conversion_rates[Len(conversion_rates)]

\* The lookup ordered the other way: the oldest active row of the currency.
\* The code does not do this; C36 is shown to depend on the difference.
oldest_rate(currency) ==
    LET rows == {i \in DOMAIN conversion_rates :
                    /\ conversion_rates[i].currency = currency
                    /\ conversion_rates[i].is_active}
    IN IF rows = {} THEN NoRate
       ELSE conversion_rates[CHOOSE i \in rows : \A j \in rows : i <= j]

\* SELECT * FROM conversion_rates WHERE currency = ? AND is_active = 1
\* ORDER BY updated_at DESC LIMIT 1
get_conversion_rate(currency) ==
    LET rows == {i \in DOMAIN conversion_rates :
                    /\ conversion_rates[i].currency = currency
                    /\ conversion_rates[i].is_active}
    IN IF rows = {} THEN NoRate
       ELSE conversion_rates[CHOOSE i \in rows : \A j \in rows : j <= i]

\* The fields of a BalanceResponse; the four balances are fields of the Balance
\* held in its field "balance".
BalanceResponseFields ==
    {"user_id", "user_type", "growid", "balance", "last_updated", "updated_by"}

\* A read that reports more than any amount asked for.  The code does not do
\* this; C34 is shown to depend on the difference.
unlimited_balance(balance, from_currency) == [kind |-> "int", value |-> 1000000]

\* getattr(balance, f"{from_currency.value}_balance") on the BalanceResponse
\* that get_balance returned.
currency_balance(balance, from_currency) ==
    LET name == CASE from_currency = "wl" -> "wl_balance"
                  [] from_currency = "dl" -> "dl_balance"
                  [] from_currency = "bgl" -> "bgl_balance"
                  [] OTHER -> "idr_balance"
    IN IF name \in BalanceResponseFields
       THEN [kind |-> "int", value |-> balance.balance[from_currency]]
       ELSE [kind |-> "AttributeError"]

\* A ConversionRequest that its model refuses cannot be built.
RejectConversion(p) ==
    /\ pc[p] = "idle"
    /\ \E r \in ConversionRequests :
         /\ ~ConversionRequest(r)
         /\ Rejected(p, "ValidationError", r, NoRate)
    /\ UNCHANGED <<store, locks>>

\* Lines 167-171: the direction checks convert_currency makes itself.
direction_check(r) ==
    IF r.from_currency = "idr" THEN "Cannot convert from Rupiah"
    ELSE IF r.to_currency # "idr" THEN "Can only convert to Rupiah"
    ELSE "ok"

\* The checks of lines 174-186 without the test for a missing rate.  The code
\* does not do this; C22 is shown to depend on the difference.
no_rate_check(amount, found) ==
    IF found = NoRate THEN "ok"
    ELSE IF amount < found.min_amount THEN "Amount below minimum"
    ELSE IF amount > found.max_amount THEN "Amount above maximum"
    ELSE "ok"

\* The checks of lines 174-186 with exclusive bounds.  The code does not do
\* this; C23 is shown to depend on the difference.
exclusive_range_check(amount, found) ==
    IF found = NoRate THEN "No conversion rate found"
    ELSE IF ~found.is_active THEN "Conversion inactive"
    ELSE IF amount <= found.min_amount THEN "Amount below minimum"
    ELSE IF amount >= found.max_amount THEN "Amount above maximum"
    ELSE "ok"

\* Lines 174-186: what convert_currency answers to amount under the rate row
\* found, "ok" when it goes on to the balance check.
rate_checks(amount, found) ==
    IF found = NoRate THEN "No conversion rate found"
    ELSE IF ~found.is_active THEN "Conversion inactive"
    ELSE IF amount < found.min_amount THEN "Amount below minimum"
    ELSE IF amount > found.max_amount THEN "Amount above maximum"
    ELSE "ok"

\* convert_currency fed requests no model has validated and making no
\* direction check of its own.  The code does not do this; C31 is shown to
\* depend on the difference.
GetConversionRateAnyDirection(p, ok) ==
    /\ pc[p] = "idle"
    /\ \E r \in ConversionRequests :
         /\ r.amount > 0
         /\ pc' = [pc EXCEPT ![p] = "check_balance"]
         /\ request' = [request EXCEPT ![p] = r]
         /\ rate' = [rate EXCEPT ![p] = conversion_rates[1]]
         /\ ret' = [ret EXCEPT ![p] = "none"]
         /\ UNCHANGED transaction_id
    /\ UNCHANGED <<store, locks>>

\* convert_currency from its entry to the amount validation.
\* ok = FALSE: the SELECT raises, the handler returns "Conversion failed".
GetConversionRate(p, ok) ==
    /\ pc[p] = "idle"
    /\ \E r \in ConversionRequests :
         /\ ConversionRequest(r)
         /\ LET found == get_conversion_rate(r.from_currency) IN
            IF direction_check(r) # "ok"
            THEN Rejected(p, direction_check(r), r, NoRate)
            ELSE IF ~ok THEN Returned(p, "Conversion failed")
            ELSE IF rate_checks(r.amount, found) # "ok"
            THEN Rejected(p, rate_checks(r.amount, found), r, found)
            ELSE /\ pc' = [pc EXCEPT ![p] = "check_balance"]
                 /\ request' = [request EXCEPT ![p] = r]
                 /\ rate' = [rate EXCEPT ![p] = found]
                 /\ ret' = [ret EXCEPT ![p] = "none"]
                 /\ UNCHANGED transaction_id
    /\ UNCHANGED <<store, locks>>

\* The parameters of BalanceService.update_balance.
update_balance_parameters == {"user_id", "user_type", "update_request"}

\* convert_currency calls update_balance(user_id=, user_type=, updates=):
\* a keyword the function does not have raises TypeError before any of its
\* body runs.
call_update_balance(keywords) ==
    IF keywords = update_balance_parameters THEN "called" ELSE "TypeError"

\* The row convert_currency inserts into conversions, with status "success",
\* before it updates any balance.
conversion_row(r, found) ==
    [user_id |-> r.user_id, from_currency |-> r.from_currency,
     to_currency |-> r.to_currency, amount |-> r.amount,
     converted_amount |-> r.amount * found.rate_rupiah,
     rate_used |-> found.rate_rupiah, status |-> "success"]

\* The balance check and what follows it.  get_balance returns a
\* BalanceResponse, which has no attribute <currency>_balance, so line 196
\* raises AttributeError whenever the account exists and the handler of
\* convert_currency returns "Conversion failed": the INSERT into conversions
\* and the call of update_balance after line 198 are never reached.  They are
\* kept in the last branch, as one step with the read.
CheckBalance(p, ok) ==
    /\ pc[p] = "check_balance"
    /\ LET balance == get_balance(request[p].user_id, request[p].user_type)
           have == currency_balance(balance, request[p].from_currency)
           r == request[p]
       IN
       IF ~ok \/ balance.kind = "ValidationError"
       THEN Rejected(p, "Conversion failed", r, rate[p]) /\ UNCHANGED conversions
       ELSE IF balance.kind = "None"
       THEN Rejected(p, "User balance not found", r, rate[p]) /\ UNCHANGED conversions
       ELSE IF have.kind = "AttributeError"
       THEN Rejected(p, "Conversion failed", r, rate[p]) /\ UNCHANGED conversions
       ELSE IF have.value < request[p].amount
       THEN Rejected(p, "Insufficient balance", r, rate[p]) /\ UNCHANGED conversions
       ELSE /\ conversions' = Append(conversions, conversion_row(request[p], rate[p]))
            /\ IF call_update_balance({"user_id", "user_type", "updates"}) = "TypeError"
               THEN Rejected(p, "Conversion failed", r, rate[p])
               ELSE Rejected(p, "Conversion successful", r, rate[p])
    /\ UNCHANGED <<users, balance_transactions, transactions, conversion_rates, locks>>

\* (currency, rate_rupiah, min_amount, max_amount) of the rate updates the
\* model makes: a new WL price, a WL rate with a higher minimum, a DL rate,
\* a WL rate whose bounds are the two amounts the callers use, a WL rate with
\* a maximum between them, and four updates the method refuses.
RateUpdates ==
    {<<"wl", 6000, 1, 10000>>, <<"wl", 5000, 100, 10000>>, <<"dl", 100, 1, 1000>>,
     <<"wl", 5000, 50, 150>>, <<"wl", 5000, 1, 100>>,
     <<"idr", 1, 1, 10>>, <<"wl", 0, 1, 10>>, <<"wl", 5000, 0, 10>>,
     <<"wl", 5000, 10, 10>>}

\* An update that takes any values.  The code does not do this; C35 is shown
\* to depend on the difference.
any_rate_values(u) == TRUE

\* Lines 65-74: the values update_conversion_rate accepts.
valid_rate_values(u) ==
    /\ u[1] # "idr"
    /\ u[2] > 0
    /\ u[3] >= 1
    /\ u[4] > u[3]

\* update_conversion_rate: refuse rupiah and ill-formed values, else INSERT a
\* new active row and return get_conversion_rate(currency).  No statement
\* touches the rows already in the table.  Every exception returns None.
update_conversion_rate(p, ok) ==
    /\ pc[p] = "idle"
    /\ Len(conversion_rates) < MaxRates
    /\ \E u \in RateUpdates :
         IF ~valid_rate_values(u) \/ ~ok
         THEN /\ conversion_rates' = conversion_rates
              /\ Returned(p, "None")
         ELSE /\ conversion_rates' = Append(conversion_rates,
                     [currency |-> u[1], rate_rupiah |-> u[2], min_amount |-> u[3],
                      max_amount |-> u[4], is_active |-> TRUE])
              /\ Returned(p, "ConversionRate")
    /\ UNCHANGED <<users, balance_transactions, transactions, conversions, locks>>

\* ------------------------------------------------------------ acquire_lock
\* acquire_lock(key, timeout): self._redis.lock("lock:<key>", timeout=timeout)
\* builds the lock object; nothing is written yet.
acquire_lock(p) ==
    /\ pc[p] = "idle"
    /\ \E key \in Accounts, timeout \in Timeouts :
         request' = [request EXCEPT ![p] =
                        [kind |-> "acquire_lock", key |-> key,
                         timeout |-> timeout, waited |-> 0]]
    /\ pc' = [pc EXCEPT ![p] = "acquire_lock"]
    /\ ret' = [ret EXCEPT ![p] = "none"]
    /\ UNCHANGED <<store, locks, transaction_id, rate>>

\* One lock for the whole store: the key can be set only when no key exists.
\* The code does not do this; C28 is shown to depend on the difference.
global_lock_acquire(p, ok) ==
    /\ pc[p] = "acquire_lock"
    /\ IF ~ok
       THEN Returned(p, "None") /\ UNCHANGED locks
       ELSE /\ \A a \in AccountKeys : locks[a] = NoLock
            /\ locks' = [locks EXCEPT ![request[p].key] =
                            [holder |-> p, ttl |-> request[p].timeout]]
            /\ Returned(p, "Lock")
    /\ UNCHANGED store

\* lock.acquire(blocking=True): timeout is the lifetime of the key, and with
\* no blocking_timeout the call retries until the key can be set.  It returns
\* the lock when the key is absent, waits while another holder's key exists,
\* and returns None only when redis raises (ok = FALSE).
lock_acquire(p, ok) ==
    /\ pc[p] = "acquire_lock"
    /\ IF ~ok
       THEN Returned(p, "None") /\ UNCHANGED locks
       ELSE /\ locks[request[p].key] = NoLock
            /\ locks' = [locks EXCEPT ![request[p].key] =
                            [holder |-> p, ttl |-> request[p].timeout]]
            /\ Returned(p, "Lock")
    /\ UNCHANGED store

\* One tick of the clock: every key loses one tick of its lifetime and is
\* deleted by redis when none is left; every caller blocked in lock.acquire
\* has waited one tick more.  Nothing in the code releases a lock.
Tick ==
    /\ \E a \in AccountKeys : locks[a] # NoLock
    /\ \A p \in Procs : pc[p] = "acquire_lock" => request[p].waited < MaxWait
    /\ locks' = [a \in AccountKeys |->
                    IF locks[a].ttl <= 1 THEN NoLock
                    ELSE [locks[a] EXCEPT !.ttl = @ - 1]]
    /\ request' = [p \in Procs |->
                      IF pc[p] = "acquire_lock"
                      THEN [request[p] EXCEPT !.waited = @ + 1]
                      ELSE request[p]]
    /\ UNCHANGED <<store, pc, transaction_id, rate, ret>>

\* The process dies between two statements of a call and is started again;
\* nothing it held in memory survives.
Crash(p) ==
    /\ pc[p] # "idle"
    /\ Returned(p, "none")
    /\ UNCHANGED <<store, locks>>

\* ------------------------------------------------------ TransactionService
\* TransactionStatus of models/transaction.py, the one TransactionService uses.
TransactionServiceStatus == {"pending", "completed", "failed", "voided", "refunded"}

\* (user_id, user_type, growid, type, currency) of the transactions the model
\* creates.
TransactionTargets ==
    {<<"u1", "discord", "G1", "purchase", "wl">>, <<"u1", "web", "", "purchase", "idr">>,
     <<"u1", "web", "", "purchase", "wl">>}

TransactionCreates ==
    {[user_id |-> t[1], user_type |-> t[2], growid |-> t[3], type |-> t[4],
      currency |-> t[5], amount |-> a] : t \in TransactionTargets, a \in Amounts}

\* TransactionCreate: validate_growid, validate_currency_type, validate_amount.
TransactionCreate(t) ==
    /\ t.user_type = "discord" => t.growid # ""
    /\ t.user_type = "web" => t.growid = ""
    /\ t.user_type = "web" => t.currency = "idr"
    /\ t.amount > 0

\* create_transaction: INSERT the row with status pending and read it back;
\* None when a statement raises.
create_transaction(p, ok) ==
    /\ pc[p] = "idle"
    /\ Len(transactions) < MaxTransactions
    /\ \E t \in TransactionCreates :
         /\ TransactionCreate(t)
         /\ IF ok
            THEN /\ transactions' = Append(transactions,
                        [user_id |-> t.user_id, user_type |-> t.user_type,
                         type |-> t.type, currency |-> t.currency,
                         amount |-> t.amount, status |-> "pending"])
                 /\ Returned(p, "TransactionResponse")
            ELSE /\ transactions' = transactions
                 /\ Returned(p, "None")
    /\ UNCHANGED <<users, balance_transactions, conversion_rates, conversions, locks>>

\* update_transaction_status: UPDATE transactions SET status = ? WHERE id = ?
\* for any id and any status; True unless the statement raises.
update_transaction_status(p, ok) ==
    /\ pc[p] = "idle"
    /\ \E id \in 1..MaxTransactions, status \in TransactionServiceStatus :
         IF ok
         THEN /\ transactions' = set_status(transactions, id, status)
              /\ Returned(p, "True")
         ELSE /\ transactions' = transactions
              /\ Returned(p, "False")
    /\ UNCHANGED <<users, balance_transactions, conversion_rates, conversions, locks>>

\* The methods TransactionService defines.
TransactionServiceMethods ==
    {"create_transaction", "get_transaction_by_id", "get_user_transactions",
     "update_transaction_status", "_get_user_balances"}

\* The route POST /{transaction_id}/cancel calls service.cancel_transaction,
\* which TransactionService does not define: the AttributeError is caught and
\* answered with HTTPException(400), whatever the status of the row.
cancel_transaction(p) ==
    /\ pc[p] = "idle"
    /\ IF "cancel_transaction" \in TransactionServiceMethods
       THEN Returned(p, "TransactionResponse")
       ELSE Returned(p, "HTTPException")
    /\ UNCHANGED <<store, locks>>

\* ------------------------------------------------------------------- reads
\* ORDER BY <insertion time> DESC over the rows ids of a table: the newest
\* row first.
newest_first(ids) ==
    [k \in 1..Cardinality(ids) |->
        CHOOSE i \in ids : Cardinality({j \in ids : j > i}) = k - 1]

\* LIMIT limit OFFSET offset.
limit_offset(rows, limit, offset) ==
    [k \in 1..(IF Len(rows) - offset < 0 THEN 0
               ELSE IF Len(rows) - offset < limit THEN Len(rows) - offset
               ELSE limit) |-> rows[offset + k]]

\* _get_user_balances(user_id): SELECT ... FROM users WHERE id = ? and
\* result[0].  The query names no platform and no order, so any row of the
\* user id can be the first; zeros when there is none.
get_user_balances(user_id) ==
    IF \A a \in DOMAIN users : a[1] # user_id
    THEN {[c \in CurrencyType |-> 0]}
    ELSE {users[a].balance : a \in {b \in DOMAIN users : b[1] = user_id}}

\* get_transaction_by_id: None when no row has the id, else the row with the
\* balances _get_user_balances(transaction['user_id']) gave.
get_transaction_by_id(p) ==
    /\ pc[p] = "idle"
    /\ \E id \in 1..MaxTransactions :
         IF id \notin DOMAIN transactions
         THEN Returned(p, "None")
         ELSE \E balances \in get_user_balances(transactions[id].user_id) :
                  Rejected(p, "TransactionResponse",
                           [kind |-> "get_transaction_by_id",
                            user_id |-> transactions[id].user_id,
                            user_type |-> transactions[id].user_type,
                            ids |-> <<id>>,
                            balances |-> balances],
                           NoRate)
    /\ UNCHANGED <<store, locks>>

\* get_user_transactions(user_id, user_type, limit, offset): the rows of the
\* account, newest first, each with the balances _get_user_balances(user_id)
\* gave.
get_user_transactions(p) ==
    /\ pc[p] = "idle"
    /\ \E a \in Accounts, limit \in 1..2, offset \in 0..1 :
         \E balances \in get_user_balances(a[1]) :
             Rejected(p, "List[TransactionResponse]",
                      [kind |-> "get_user_transactions",
                       user_id |-> a[1], user_type |-> a[2],
                       ids |-> limit_offset(
                                  newest_first({i \in DOMAIN transactions :
                                      /\ transactions[i].user_id = a[1]
                                      /\ transactions[i].user_type = a[2]}),
                                  limit, offset),
                       balances |-> balances],
                      NoRate)
    /\ UNCHANGED <<store, locks>>

\* Transaction.validate_currency_access: a row of a web user in a currency
\* other than rupiah cannot be built.
validate_currency_access(row) ==
    ~(row.user_type = "web" /\ row.currency_type # "idr")

\* The rows of balance_transactions of one account.
account_entries(user_id, user_type) ==
    {i \in DOMAIN balance_transactions :
        /\ balance_transactions[i].user_id = user_id
        /\ balance_transactions[i].user_type = user_type}

\* get_balance_history(user_id, user_type, page, page_size): COUNT(*) of the
\* account's rows, the page of them newest first, and a Transaction built
\* from every row of the page; the ValidationError of a row leaves the call.
get_balance_history(p) ==
    /\ pc[p] = "idle"
    /\ \E a \in AccountKeys, page \in 1..2, page_size \in 1..2 :
         LET total_records == Cardinality(account_entries(a[1], a[2]))
             transactions_result ==
                 limit_offset(newest_first(account_entries(a[1], a[2])),
                              page_size, (page - 1) * page_size)
             call == [kind |-> "get_balance_history",
                      user_id |-> a[1], user_type |-> a[2],
                      page |-> page, page_size |-> page_size]
         IN IF \A k \in DOMAIN transactions_result :
                   validate_currency_access(balance_transactions[transactions_result[k]])
            THEN Rejected(p, "BalanceHistoryResponse",
                          [kind |-> "get_balance_history",
                           user_id |-> a[1], user_type |-> a[2],
                           page |-> page, page_size |-> page_size,
                           transactions |-> transactions_result,
                           total_records |-> total_records],
                          NoRate)
            ELSE Rejected(p, "ValidationError",
                          [kind |-> "get_balance_history",
                           user_id |-> a[1], user_type |-> a[2],
                           page |-> page, page_size |-> page_size,
                           transactions |-> <<>>,
                           total_records |-> 0],
                          NoRate)
    /\ UNCHANGED <<store, locks>>

\* ---------------------------------------------------------- specifications
\* BalanceService under concurrent callers, storage failures and crashes.
Next ==
    \E p \in Procs :
        \/ RejectUpdate(p)
        \/ \E ok \in BOOLEAN : InsertPending(p, ok)
        \/ \E ok \in BOOLEAN : UpdateBalance(p, ok)
        \/ \E ok \in BOOLEAN : UpdateStatus(p, ok)
        \/ \E ok \in BOOLEAN : ReturnBalance(p, ok)
        \/ \E ok \in BOOLEAN : ExceptHandler(p, ok)
        \/ Crash(p)

Spec == Init /\ [][Next]_vars

\* ConversionService beside BalanceService.
NextConvert ==
    \/ Next
    \/ \E p \in Procs :
        \/ RejectConversion(p)
        \/ \E ok \in BOOLEAN : GetConversionRate(p, ok)
        \/ \E ok \in BOOLEAN : CheckBalance(p, ok)

SpecConvert == Init /\ [][NextConvert]_vars

\* BalanceService under concurrent callers when no statement fails and no
\* process dies.
NextNoFault ==
    \E p \in Procs :
        \/ RejectUpdate(p)
        \/ InsertPending(p, TRUE)
        \/ UpdateBalance(p, TRUE)
        \/ UpdateStatus(p, TRUE)
        \/ ReturnBalance(p, TRUE)
        \/ ExceptHandler(p, TRUE)

SpecNoFault == Init /\ [][NextNoFault]_vars

\* ConversionService: conversions beside rate updates, with storage failures.
NextRates ==
    \E p \in Procs :
        \/ RejectConversion(p)
        \/ \E ok \in BOOLEAN : GetConversionRate(p, ok)
        \/ \E ok \in BOOLEAN : CheckBalance(p, ok)
        \/ \E ok \in BOOLEAN : update_conversion_rate(p, ok)

SpecRates == Init /\ [][NextRates]_vars

\* ConversionService when no statement fails.
NextRatesNoFault ==
    \E p \in Procs :
        \/ RejectConversion(p)
        \/ GetConversionRate(p, TRUE)
        \/ CheckBalance(p, TRUE)
        \/ update_conversion_rate(p, TRUE)

SpecRatesNoFault == Init /\ [][NextRatesNoFault]_vars

\* The account locks beside BalanceService: callers of acquire_lock, redis
\* failures, the clock, and update_balance when no statement fails.
NextLocks ==
    \/ Tick
    \/ \E p \in Procs :
        \/ acquire_lock(p)
        \/ \E ok \in BOOLEAN : lock_acquire(p, ok)
        \/ InsertPending(p, TRUE)
        \/ UpdateBalance(p, TRUE)
        \/ UpdateStatus(p, TRUE)
        \/ ReturnBalance(p, TRUE)
        \/ ExceptHandler(p, TRUE)

SpecLocks == Init /\ [][NextLocks]_vars

\* BalanceService under concurrent callers and storage failures when no
\* process dies.
NextFaults ==
    \E p \in Procs :
        \/ RejectUpdate(p)
        \/ \E ok \in BOOLEAN : InsertPending(p, ok)
        \/ \E ok \in BOOLEAN : UpdateBalance(p, ok)
        \/ \E ok \in BOOLEAN : UpdateStatus(p, ok)
        \/ \E ok \in BOOLEAN : ReturnBalance(p, ok)
        \/ \E ok \in BOOLEAN : ExceptHandler(p, ok)

SpecFaults == Init /\ [][NextFaults]_vars

\* Credits on two accounts beside callers of acquire_lock, no statement of
\* update_balance failing (a credit never enters the error handler).
NextParallel ==
    \/ Tick
    \/ \E p \in Procs :
        \/ acquire_lock(p)
        \/ \E ok \in BOOLEAN : lock_acquire(p, ok)
        \/ InsertParallel(p)
        \/ UpdateBalance(p, TRUE)
        \/ UpdateStatus(p, TRUE)
        \/ ReturnBalance(p, TRUE)

SpecParallel == Init /\ [][NextParallel]_vars

\* BalanceService called with every transaction type, no statement failing.
NextTyped ==
    \E p \in Procs :
        \/ InsertTyped(p)
        \/ UpdateBalance(p, TRUE)
        \/ UpdateStatus(p, TRUE)
        \/ ReturnBalance(p, TRUE)
        \/ ExceptHandler(p, TRUE)

SpecTyped == Init /\ [][NextTyped]_vars

\* BalanceService with its history read, one caller writing at a time and no
\* statement failing.
NextHistory ==
    \E p \in Procs :
        \/ /\ \A q \in Procs : pc[q] = "idle"
           /\ InsertPending(p, TRUE)
        \/ UpdateBalance(p, TRUE)
        \/ UpdateStatus(p, TRUE)
        \/ ReturnBalance(p, TRUE)
        \/ get_balance_history(p)

SpecHistory == Init /\ [][NextHistory]_vars

\* TransactionService and its cancel route.
NextTransactions ==
    \E p \in Procs :
        \/ \E ok \in BOOLEAN : create_transaction(p, ok)
        \/ \E ok \in BOOLEAN : update_transaction_status(p, ok)
        \/ cancel_transaction(p)
        \/ get_transaction_by_id(p)
        \/ get_user_transactions(p)

SpecTransactions == Init /\ [][NextTransactions]_vars

\* ------------------------------------------------------------- properties
\* The signed balance delta a ledger row stands for: add, donation and refund
\* credit the account, every other type debits it.
SignedDelta(e) ==
    IF e.transaction_type \in {"add", "donation", "refund"} THEN e.amount ELSE -e.amount

\* The sum of the deltas of the success rows of account a in currency c.
RECURSIVE SuccessSum(_, _, _)
SuccessSum(tbl, a, c) ==
    IF tbl = <<>> THEN 0
    ELSE LET e == tbl[Len(tbl)]
             rest == SuccessSum(SubSeq(tbl, 1, Len(tbl) - 1), a, c)
         IN IF /\ <<e.user_id, e.user_type>> = a
               /\ e.currency_type = c
               /\ e.status = "success"
            THEN rest + SignedDelta(e)
            ELSE rest

\* A process is inside the body of update_balance, between its first and its
\* last statement.
InUpdateBalance(p) == pc[p] \in {"update_balance", "update_status", "return", "except"}

Quiescent == \A p \in Procs : pc[p] = "idle"

\* The transitions the ledger's state machine allows.
LegalTransitions ==
    {<<"pending", "success">>, <<"pending", "failed">>,
     <<"pending", "cancelled">>, <<"success", "reversed">>}

\* The same four in the vocabulary of the transactions table.
LegalTransactionTransitions ==
    {<<"pending", "completed">>, <<"pending", "failed">>,
     <<"pending", "voided">>, <<"completed", "refunded">>}

\* C1: in every reachable state every currency balance of every account is
\* >= 0.
C1_BalancesNonNegative ==
    \A a \in DOMAIN users : \A c \in CurrencyType : users[a].balance[c] >= 0

\* C2: in every reachable state, crash states included, the balance of an
\* account reflects exactly the deltas of its success rows: a row is success
\* iff its delta has been applied, and a pending or failed row has had no
\* effect on the balance.
C2_SuccessIffApplied ==
    \A a \in Accounts : \A c \in CurrencyType :
        users[a].balance[c] =
            InitialUsers[a].balance[c] + SuccessSum(balance_transactions, a, c)

\* C3: at most one mutating operation is in flight per account: two processes
\* are never inside update_balance for the same account at the same time.
C3_OneMutationPerAccount ==
    \A p, q \in Procs :
        (p # q /\ InUpdateBalance(p) /\ InUpdateBalance(q)) =>
            <<request[p].user_id, request[p].user_type>> #
                <<request[q].user_id, request[q].user_type>>

\* C4: once the concurrent update_balance calls on an account have all
\* returned, its balance is not negative and equals the initial balance plus
\* the deltas of the accepted calls (the rows that ended success); rejected
\* calls contribute nothing.
C4_AcceptedDeltasSum ==
    Quiescent =>
        \A a \in Accounts : \A c \in CurrencyType :
            /\ users[a].balance[c] >= 0
            /\ users[a].balance[c] =
                   InitialUsers[a].balance[c] + SuccessSum(balance_transactions, a, c)

\* C6: update_balance with a debit larger than the current balance leaves the
\* balance unchanged and does not go on to finalize the row as success.
C6_InsufficientFundsRejected ==
    [][\A p \in Procs :
          LET a == <<request[p].user_id, request[p].user_type>> IN
          ( /\ pc[p] = "update_balance"
            /\ pc'[p] # pc[p]
            /\ a \in DOMAIN users
            /\ request[p].transaction_type = "subtract"
            /\ request[p].amount > users[a].balance[request[p].currency_type] )
          => (users' = users /\ pc'[p] # "update_status")]_vars

\* C7: the status of a ledger row only ever changes along pending->success,
\* pending->failed, pending->cancelled or success->reversed.
C7_OnlyLegalTransitions ==
    [][\A i \in DOMAIN balance_transactions :
          balance_transactions'[i].status # balance_transactions[i].status =>
              <<balance_transactions[i].status, balance_transactions'[i].status>>
                  \in LegalTransitions]_vars

\* C8: every ledger row is created pending, and a row whose status has been
\* changed once (it is no longer pending) is never modified again.
C8_FinalizedOnce ==
    [][/\ \A i \in DOMAIN balance_transactions' \ DOMAIN balance_transactions :
              balance_transactions'[i].status = "pending"
       /\ \A i \in DOMAIN balance_transactions :
              balance_transactions[i].status # "pending" =>
                  balance_transactions'[i] = balance_transactions[i]]_vars

\* C9: a request to move a row of the transactions table along a transition
\* that is not one of the four legal ones leaves the row's status and the
\* balances unchanged.
C9_IllegalTransitionRejected ==
    [][\A i \in DOMAIN transactions :
          <<transactions[i].status, transactions'[i].status>>
              \notin LegalTransactionTransitions
          => (transactions'[i].status = transactions[i].status /\ users' = users)]_vars

\* The sum of the amounts of the success rows of account a in currency c
\* whose type is in types.
RECURSIVE AmountSum(_, _, _, _)
AmountSum(tbl, a, c, types) ==
    IF tbl = <<>> THEN 0
    ELSE LET e == tbl[Len(tbl)]
             rest == AmountSum(SubSeq(tbl, 1, Len(tbl) - 1), a, c, types)
         IN IF /\ <<e.user_id, e.user_type>> = a
               /\ e.currency_type = c
               /\ e.status = "success"
               /\ e.transaction_type \in types
            THEN rest + e.amount
            ELSE rest

CreditTypes == {"add", "donation", "refund"}

DebitTypes == {"subtract", "purchase", "adjustment", "convert"}

\* C11: after any sequence of operations on an account (every call has
\* returned), for each currency balance = initial balance + sum of the success
\* credit entries - sum of the success debit entries.
C11_LedgerReconciles ==
    Quiescent =>
        \A a \in Accounts : \A c \in CurrencyType :
            users[a].balance[c] - InitialUsers[a].balance[c] =
                AmountSum(balance_transactions, a, c, CreditTypes)
                    - AmountSum(balance_transactions, a, c, DebitTypes)

\* C12: the UPDATE of update_balance adds +amount to the balance for the types
\* add, donation and refund, and -amount for subtract, purchase and adjustment,
\* for every currency.
C12_SignedDeltaApplied ==
    [][\A p \in Procs :
          LET a == <<request[p].user_id, request[p].user_type>>
              c == request[p].currency_type IN
          ( /\ pc[p] = "update_balance"
            /\ pc'[p] = "update_status"
            /\ request[p].transaction_type \in
                   {"add", "donation", "refund", "subtract", "purchase", "adjustment"} )
          => users'[a].balance[c] = users[a].balance[c] + SignedDelta(request[p])]_vars

\* C13: a conversion of amount a that passed the rate checks, on an account
\* holding at least a of the game currency, debits that balance by a, credits
\* the rupiah balance by a * rate, records a success row with converted_amount
\* = a * rate and rate_used = rate, and reports success.
C13_ConversionApplied ==
    [][\A p \in Procs :
          LET a == <<request[p].user_id, request[p].user_type>>
              from == request[p].from_currency
              amount == request[p].amount
              r == rate[p].rate_rupiah IN
          ( /\ pc[p] = "check_balance"
            /\ pc'[p] # pc[p]
            /\ a \in DOMAIN users
            /\ users[a].balance[from] >= amount )
          => /\ ret'[p] = "Conversion successful"
             /\ users'[a].balance[from] = users[a].balance[from] - amount
             /\ users'[a].balance["idr"] = users[a].balance["idr"] + amount * r
             /\ Len(conversions') = Len(conversions) + 1
             /\ conversions'[Len(conversions')].status = "success"
             /\ conversions'[Len(conversions')].converted_amount = amount * r
             /\ conversions'[Len(conversions')].rate_used = r]_vars

\* C14: the balance a conversion compares with its amount is read while the
\* converting process holds the lock of the account.
C14_BalanceReadUnderLock ==
    [][\A p \in Procs :
          ( /\ pc[p] = "check_balance"
            /\ pc'[p] # pc[p]
            /\ ret'[p] # "none" )
          => locks[<<request[p].user_id, request[p].user_type>>].holder = p]_vars

\* C15: a conversion in flight carries the rate row it looked up: the row is
\* an active row of its currency whose bounds hold the amount, rate updates
\* made meanwhile leave it as it is, the conversion is never refused later on
\* the grounds of a rate, and a record it writes has rate_used and
\* converted_amount computed from that row.
C15_RateReadOnce ==
    [][\A p \in Procs :
          /\ pc'[p] = "check_balance" =>
                /\ rate'[p].currency = request'[p].from_currency
                /\ rate'[p].is_active
                /\ rate'[p].min_amount <= request'[p].amount
                /\ request'[p].amount <= rate'[p].max_amount
                /\ \E i \in DOMAIN conversion_rates' : conversion_rates'[i] = rate'[p]
          /\ (pc[p] = "check_balance" /\ pc'[p] = "check_balance") =>
                (rate'[p] = rate[p] /\ request'[p] = request[p])
          /\ (pc[p] = "check_balance" /\ pc'[p] # pc[p]) =>
                /\ ret'[p] \notin {"No conversion rate found", "Conversion inactive",
                                   "Amount below minimum", "Amount above maximum"}
                /\ Len(conversions') > Len(conversions) =>
                      LET row == conversions'[Len(conversions')] IN
                      /\ row.rate_used = rate[p].rate_rupiah
                      /\ row.converted_amount = request[p].amount * rate[p].rate_rupiah]_vars

\* A conversion is in flight and the rate of its currency has been updated
\* since it looked it up: a lookup made now would refuse its amount.
C15_RateChangedInFlight ==
    \E p \in Procs :
        /\ pc[p] = "check_balance"
        /\ get_conversion_rate(request[p].from_currency) # rate[p]
        /\ request[p].amount < get_conversion_rate(request[p].from_currency).min_amount

\* C16: each currency has at most one active row of conversion_rates.
C16_OneActiveRate ==
    \A c \in CurrencyType :
        Cardinality({i \in DOMAIN conversion_rates :
                        conversion_rates[i].currency = c /\ conversion_rates[i].is_active})
            <= 1

\* C17: a caller of acquire_lock that has waited longer than its timeout for a
\* lock another holder kept leaves the call with a failure (no handle).
C17_AcquireFailsAfterTimeout ==
    [][\A p \in Procs :
          ( /\ pc[p] = "acquire_lock"
            /\ pc'[p] # pc[p]
            /\ request[p].waited > request[p].timeout )
          => ret'[p] = "None"]_vars

\* C19: update_balance creates no ledger entry for an account whose lock is
\* held by another process at that moment.
C19_NoEntryWithoutLock ==
    [][\A p \in Procs :
          ( /\ pc[p] = "idle"
            /\ InUpdateBalance(p)'
            /\ locks[<<request'[p].user_id, request'[p].user_type>>].holder
                   \notin {"none", p} )
          => balance_transactions' = balance_transactions]_vars

\* C20: no ledger entry exists for a game currency on a web account, and the
\* game-currency balances of a web account never change.
C20_PlatformCurrencyRejected ==
    /\ \A i \in DOMAIN balance_transactions :
          balance_transactions[i].user_type = "web" =>
              balance_transactions[i].currency_type = "idr"
    /\ \A a \in Accounts : \A c \in CurrencyType \ {"idr"} :
          a[2] = "web" => users[a].balance[c] = InitialUsers[a].balance[c]

\* Process p takes a step of convert_currency that begins the call: it was
\* idle and now carries a conversion request with a new outcome.
ConversionStep(p) ==
    /\ pc[p] = "idle"
    /\ request'[p].kind = "convert_currency"
    /\ <<pc'[p], request'[p], rate'[p], ret'[p]>> # <<pc[p], request[p], rate[p], ret[p]>>

\* Nothing a conversion could create or take has changed.
NothingCreated ==
    UNCHANGED <<users, balance_transactions, conversions, locks>>

\* C21: a conversion request whose platform is not discord, whose
\* from-currency is the real currency or whose amount is <= 0 ends with a
\* ValidationError and goes no further; the step that rejects it acquires no
\* lock, writes no ledger entry or conversion record and changes no balance.
C21_InvalidConversionRejected ==
    /\ [](\A p \in Procs :
            ( /\ request[p].kind = "convert_currency"
              /\ \/ request[p].user_type # "discord"
                 \/ request[p].from_currency = "idr"
                 \/ request[p].amount <= 0 )
            => (pc[p] = "idle" /\ ret[p] = "ValidationError"))
    /\ [][\A p \in Procs :
            (ConversionStep(p) /\ ret'[p] = "ValidationError") => NothingCreated]_vars

\* convert(WL, amount = 0) has been rejected with a ValidationError.
C21_ZeroAmountRejected ==
    \E p \in Procs :
        /\ pc[p] = "idle"
        /\ ret[p] = "ValidationError"
        /\ request[p].kind = "convert_currency"
        /\ request[p].user_type = "discord"
        /\ request[p].from_currency = "wl"
        /\ request[p].amount = 0

\* Currency c has no active row in conversion_rates.
NoActiveRate(c) ==
    \A i \in DOMAIN conversion_rates :
        conversion_rates[i].currency = c => ~conversion_rates[i].is_active

NoActiveRateMessages == {"No conversion rate found", "Conversion inactive"}

RangeErrorMessages == {"Amount below minimum", "Amount above maximum"}

\* C22: a valid conversion request fails with the no-active-rate answer
\* exactly when its from-currency has no active rate row, and that step
\* acquires no lock, writes no entry or record and changes no balance.
C22_NoActiveRateRejected ==
    [][\A p \in Procs :
          (ConversionStep(p) /\ ret'[p] # "ValidationError") =>
              /\ NoActiveRate(request'[p].from_currency)
                     <=> ret'[p] \in NoActiveRateMessages
              /\ ret'[p] \in NoActiveRateMessages =>
                     (pc'[p] = "idle" /\ NothingCreated)]_vars

\* A conversion from DL, whose only rate row is inactive, has been refused.
C22_InactiveRateRefused ==
    \E p \in Procs :
        /\ pc[p] = "idle"
        /\ ret[p] = "No conversion rate found"
        /\ request[p].kind = "convert_currency"
        /\ request[p].from_currency = "dl"
        /\ \E i \in DOMAIN conversion_rates : conversion_rates[i].currency = "dl"

\* C23: under an active rate a valid conversion request goes on to the
\* balance check exactly when min_amount <= amount <= max_amount; otherwise it
\* is refused with a range answer, and that step writes no entry or record
\* and changes no balance.
C23_RangeInclusive ==
    [][\A p \in Procs :
          ( /\ ConversionStep(p)
            /\ ret'[p] # "ValidationError"
            /\ ~NoActiveRate(request'[p].from_currency) ) =>
              LET found == get_conversion_rate(request'[p].from_currency)
                  amount == request'[p].amount
                  inside == found.min_amount <= amount /\ amount <= found.max_amount
              IN /\ pc'[p] = "check_balance" <=> inside
                 /\ ~inside => ( /\ pc'[p] = "idle"
                                 /\ ret'[p] \in RangeErrorMessages
                                 /\ NothingCreated )]_vars

\* Two conversions have passed the range check, one with amount = min_amount
\* and one with amount = max_amount of the rate it looked up.
C23_BothBoundsAccepted ==
    \E p, q \in Procs :
        /\ pc[p] = "check_balance"
        /\ pc[q] = "check_balance"
        /\ request[p].amount = rate[p].min_amount
        /\ request[q].amount = rate[q].max_amount

\* Every balance is the initial balance plus the deltas of the success rows.
Reconciled(u, tbl) ==
    \A a \in Accounts : \A c \in CurrencyType :
        u[a].balance[c] = InitialUsers[a].balance[c] + SuccessSum(tbl, a, c)

\* C24: when update_balance returns through its error handler (a write after
\* the pending entry failed) and no other call is in flight, the balance and
\* the ledger agree: the failed operation has left no delta behind.
C24_FailureRollsBack ==
    [][\A p \in Procs :
          ( /\ pc[p] = "except"
            /\ pc'[p] = "idle"
            /\ \A q \in Procs \ {p} : pc[q] = "idle" )
          => Reconciled(users', balance_transactions')]_vars

\* C25: a reader never sees a balance that already holds the delta of an
\* entry still pending: while an account has a pending entry in a currency,
\* get_balance returns the initial balance plus the deltas of its success
\* entries.
C25_NoIntermediateRead ==
    \A a \in Accounts : \A c \in CurrencyType :
        LET b == get_balance(a[1], a[2]) IN
        ( /\ \E i \in DOMAIN balance_transactions :
                 /\ <<balance_transactions[i].user_id,
                      balance_transactions[i].user_type>> = a
                 /\ balance_transactions[i].currency_type = c
                 /\ balance_transactions[i].status = "pending"
          /\ b.kind = "BalanceResponse" )
        => b.balance[c] =
               InitialUsers[a].balance[c] + SuccessSum(balance_transactions, a, c)

\* C26: no call ends with a raw storage exception or with an empty result.
C26_TypedResults ==
    \A p \in Procs : ret[p] \notin {"None", "sqlite3.Error"}

\* C27: when no process dies, a call of update_balance that wrote its entry
\* does not return while that entry is still pending.
C27_ReturnsTerminal ==
    [][\A p \in Procs :
          ( /\ InUpdateBalance(p)
            /\ pc'[p] = "idle"
            /\ transaction_id[p] \in DOMAIN balance_transactions' )
          => balance_transactions'[transaction_id[p]].status \in {"success", "failed"}]_vars

\* C29: every web account holds zero in the three game currencies, and the
\* rupiah balance of a discord account is what it was at the start (no
\* conversion has credited it).
C29_PlatformBalances ==
    \A a \in Accounts :
        /\ a[2] = "web" =>
              \A c \in CurrencyType \ {"idr"} : users[a].balance[c] = 0
        /\ a[2] = "discord" =>
              users[a].balance["idr"] = InitialUsers[a].balance["idr"]

\* C30: every ledger entry has amount > 0, whatever its type.
C30_PositiveAmounts ==
    \A i \in DOMAIN balance_transactions : balance_transactions[i].amount > 0

\* A credit and a debit have both been recorded and finalized: a success entry
\* of type add and a success entry of type subtract, each with a positive
\* amount.
C30_DebitRecorded ==
    \E i, j \in DOMAIN balance_transactions :
        /\ balance_transactions[i].transaction_type = "add"
        /\ balance_transactions[i].status = "success"
        /\ balance_transactions[i].amount > 0
        /\ balance_transactions[j].transaction_type = "subtract"
        /\ balance_transactions[j].status = "success"
        /\ balance_transactions[j].amount > 0

GameCurrencies == CurrencyType \ {"idr"}

\* C31: conversion goes from a game currency to the real currency only: a
\* conversion that has passed its checks, and every conversion record, has a
\* game currency as from-currency and rupiah as to-currency, and no step of a
\* conversion lowers a rupiah balance or raises a game-currency balance.
C31_OneDirectional ==
    /\ [](/\ \A p \in Procs :
               ( /\ request[p].kind = "convert_currency"
                 /\ \/ pc[p] = "check_balance"
                    \/ ret[p] \in {"Conversion failed", "Conversion successful",
                                    "Insufficient balance", "User balance not found"} )
               => ( /\ request[p].from_currency \in GameCurrencies
                    /\ request[p].to_currency = "idr" )
           /\ \A i \in DOMAIN conversions :
               /\ conversions[i].from_currency \in GameCurrencies
               /\ conversions[i].to_currency = "idr")
    /\ [][\A p \in Procs :
            (pc[p] = "check_balance" /\ pc'[p] # pc[p]) =>
                \A a \in Accounts :
                    /\ users'[a].balance["idr"] >= users[a].balance["idr"]
                    /\ \A c \in GameCurrencies :
                          users'[a].balance[c] <= users[a].balance[c]]_vars

\* A conversion from WL to rupiah is past its checks while a conversion from
\* WL to DL, asked by the other process, has been refused.
C31_ReverseRefused ==
    \E p, q \in Procs :
        /\ pc[p] = "check_balance"
        /\ request[p].from_currency = "wl"
        /\ request[p].to_currency = "idr"
        /\ pc[q] = "idle"
        /\ request[q].kind = "convert_currency"
        /\ request[q].to_currency = "dl"
        /\ ret[q] = "ValidationError"

\* C34: a conversion whose amount is larger than the from-currency balance of
\* its account ends in failure, inserts no conversion record and changes no
\* balance.
C34_InsufficientConversionFails ==
    [][\A p \in Procs :
          LET a == <<request[p].user_id, request[p].user_type>> IN
          ( /\ pc[p] = "check_balance"
            /\ pc'[p] # pc[p]
            /\ a \in DOMAIN users
            /\ request[p].amount > users[a].balance[request[p].from_currency] )
          => /\ ret'[p] \in {"Conversion failed", "Insufficient balance"}
             /\ conversions' = conversions
             /\ users' = users]_vars

\* A conversion of more WL than its account holds has ended in failure, with
\* no record written and the balance as it was.
C34_OverdrawnConversionFailed ==
    \E p \in Procs :
        LET a == <<request[p].user_id, request[p].user_type>> IN
        /\ pc[p] = "idle"
        /\ request[p].kind = "convert_currency"
        /\ ret[p] = "Conversion failed"
        /\ a \in DOMAIN users
        /\ request[p].amount > users[a].balance[request[p].from_currency]
        /\ conversions = <<>>
        /\ users = InitialUsers

\* C35: every stored rate row is of a game currency with rate_rupiah > 0 and
\* 1 <= min_amount < max_amount; a call of update_conversion_rate that returns
\* None has stored nothing, and a call that stores a row appends it and leaves
\* the rows already there as they were.
C35_StoredRatesValid ==
    /\ [](\A i \in DOMAIN conversion_rates :
            /\ conversion_rates[i].currency \in GameCurrencies
            /\ conversion_rates[i].rate_rupiah > 0
            /\ 1 <= conversion_rates[i].min_amount
            /\ conversion_rates[i].min_amount < conversion_rates[i].max_amount)
    /\ [][\A p \in Procs :
               (ret'[p] = "None" /\ ret[p] # "None") =>
                   conversion_rates' = conversion_rates]_vars
    /\ [][conversion_rates' # conversion_rates =>
               /\ Len(conversion_rates') = Len(conversion_rates) + 1
               /\ SubSeq(conversion_rates', 1, Len(conversion_rates)) = conversion_rates
               /\ \E p \in Procs : ret'[p] = "ConversionRate"]_vars

\* An update has been refused and another stored: a process got None while
\* the table holds a row more than at the start.
C35_RefusedAndStored ==
    /\ \E p \in Procs : pc[p] = "idle" /\ ret[p] = "None"
    /\ Len(conversion_rates) > Len(InitialRates)

\* C36: the row a successful update_conversion_rate stores is the row
\* get_conversion_rate returns for its currency from then on, and a conversion
\* that starts later carries the newest active row of its currency, not an
\* older one.
C36_NewestRateUsed ==
    [][/\ \/ conversion_rates' = conversion_rates
           \/ \E c \in CurrencyType :
                  /\ conversion_rates'[Len(conversion_rates')].currency = c
                  /\ (get_conversion_rate(c))' =
                         conversion_rates'[Len(conversion_rates')]
       /\ \A p \in Procs :
              (ConversionStep(p) /\ pc'[p] = "check_balance") =>
                  \A i \in DOMAIN conversion_rates :
                      \/ conversion_rates[i].currency # request'[p].from_currency
                      \/ ~conversion_rates[i].is_active
                      \/ conversion_rates[i] = rate'[p]
                      \/ \E j \in DOMAIN conversion_rates :
                             j > i /\ conversion_rates[j] = rate'[p]]_vars

\* A conversion of WL is in flight with the rate row an update stored, while
\* the older active WL row is still in the table.
C36_UpdatedRateInUse ==
    \E p \in Procs :
        /\ pc[p] = "check_balance"
        /\ request[p].from_currency = "wl"
        /\ rate[p] = conversion_rates[Len(conversion_rates)]
        /\ Len(conversion_rates) > Len(InitialRates)
        /\ rate[p] # InitialRates[1]
        /\ conversion_rates[1].is_active

\* C32: the UPDATE of update_balance on currency c of account (user_id,
\* user_type) changes that one balance and nothing else in users: the other
\* currencies of the account, its growid, and every other row, the row of the
\* same user id on the other platform included, stay as they were; no other
\* step of update_balance changes users at all.
C32_OnlyOneBalanceChanges ==
    [][/\ \A p \in Procs :
             (pc[p] = "update_balance" /\ pc'[p] = "update_status") =>
                 /\ DOMAIN users' = DOMAIN users
                 /\ \A a \in DOMAIN users :
                        /\ users'[a].growid = users[a].growid
                        /\ \A c \in CurrencyType :
                               \/ /\ a = <<request[p].user_id, request[p].user_type>>
                                  /\ c = request[p].currency_type
                               \/ users'[a].balance[c] = users[a].balance[c]
       /\ users' # users =>
             \E p \in Procs : pc[p] = "update_balance" /\ pc'[p] = "update_status"]_vars

\* The discord account of u1 has been credited in WL and the web account of
\* the same user id is as it was at the start.
C32_OtherPlatformUntouched ==
    \E p \in Procs :
        /\ pc[p] = "update_status"
        /\ request[p].user_id = "u1"
        /\ request[p].user_type = "discord"
        /\ request[p].currency_type = "wl"
        /\ users[<<"u1", "discord">>].balance["wl"] = 250
        /\ users[<<"u1", "web">>] = InitialUsers[<<"u1", "web">>]

\* C33: no entry of an account that does not exist has status success.
C33_NoSuccessForMissingAccount ==
    \A i \in DOMAIN balance_transactions :
        balance_transactions[i].status = "success" =>
            <<balance_transactions[i].user_id,
              balance_transactions[i].user_type>> \in DOMAIN users

\* C39: a write of update_balance is in the tables as soon as its statement
\* has run, and a statement that fails changes neither table: the pending row
\* and the balance written by the statements before it stay as committed.
C39_EarlierWritesStay ==
    /\ [][\A p \in Procs :
              (pc'[p] = "except" /\ pc[p] # "except") =>
                  /\ users' = users
                  /\ balance_transactions' = balance_transactions]_vars
    /\ [](\A p \in Procs :
              pc[p] \in {"update_balance", "update_status", "return"} =>
                  transaction_id[p] \in DOMAIN balance_transactions)
    /\ [][\A p \in Procs :
              (pc[p] = "update_status" /\ pc'[p] = "except"
                 /\ <<request[p].user_id, request[p].user_type>> \in DOMAIN users
                 /\ \A q \in Procs \ {p} : pc[q] = "idle"
                 /\ Len(balance_transactions) = 1) =>
                  users'[<<request[p].user_id, request[p].user_type>>]
                      .balance[request[p].currency_type]
                  = InitialUsers[<<request[p].user_id, request[p].user_type>>]
                        .balance[request[p].currency_type]
                    + multiplier(request[p].transaction_type) * request[p].amount]_vars

\* The status UPDATE of a credit of 150 WL has failed: the handler is entered
\* with the pending row and the credited balance both in the tables.
C39_FailedAfterCommit ==
    \E p \in Procs :
        /\ pc[p] = "except"
        /\ transaction_id[p] \in DOMAIN balance_transactions
        /\ balance_transactions[transaction_id[p]].status = "pending"
        /\ request[p].user_type = "discord"
        /\ request[p].currency_type = "wl"
        /\ request[p].transaction_type = "add"
        /\ users[<<"u1", "discord">>].balance["wl"] = 250
        /\ Len(balance_transactions) = 1

\* C37: the balances a transaction is reported with are the balances of the
\* transaction's own account (user_id, user_type).
C37_OwnAccountBalances ==
    \A p \in Procs :
        ( /\ pc[p] = "idle"
          /\ request[p].kind \in {"get_transaction_by_id", "get_user_transactions"}
          /\ request[p].ids # <<>> )
        => request[p].balances =
               users[<<request[p].user_id, request[p].user_type>>].balance

\* C38: with no write in flight, a call of get_balance_history(account, page,
\* page_size) returns a
\* BalanceHistoryResponse whose k-th entry is the entry of the account with
\* exactly (page - 1) * page_size + k - 1 newer entries of the account, holds
\* min(page_size, total - (page - 1) * page_size) entries, and reports as
\* total_records the number of entries of the account.
C38_HistoryPages ==
    [][\A p \in Procs :
          ( /\ \A q \in Procs : pc[q] = "idle"
            /\ request'[p].kind = "get_balance_history"
            /\ <<request[p], ret[p]>> # <<request'[p], ret'[p]>> )
          => LET r == request'[p]
                 entries == account_entries(r.user_id, r.user_type)
                 offset == (r.page - 1) * r.page_size
                 rest == Cardinality(entries) - offset
             IN /\ ret'[p] = "BalanceHistoryResponse"
                /\ r.total_records = Cardinality(entries)
                /\ Len(r.transactions) =
                       IF rest < 0 THEN 0
                       ELSE IF rest < r.page_size THEN rest ELSE r.page_size
                /\ \A k \in DOMAIN r.transactions :
                       /\ r.transactions[k] \in entries
                       /\ Cardinality({j \in entries : j > r.transactions[k]})
                              = offset + k - 1]_vars

====
